---- MODULE Spec2Model ----
(***************************************************************************)
(* Object-placement samplers of robocasa/utils/placement_samplers.py:      *)
(* UniformRandomSampler.sample (bounded-retry rejection sampling) and      *)
(* SequentialCompositeSampler (ordered pipeline of sub-samplers).          *)
(*                                                                         *)
(* Positions live on an integer grid, rotations are quarter turns, and a   *)
(* random draw of the generator is a seed, chosen nondeterministically,    *)
(* that selects a value of the range the code draws from.  A sample call   *)
(* is a frame on a call stack;                                             *)
(* one action is one step of the call (reference resolution, the head of   *)
(* the object loop, one attempt of the retry loop, one sub-sampler of a    *)
(* composite).                                                             *)
(***************************************************************************)
EXTENDS Integers, Sequences, FiniteSets, TLC

\* ------------------------------------------------------------ bounds
\* largest retry budget (num_attempts) a sampler is configured with
MaxAttempts == 2
\* number of top-level sample calls in one pass
MaxCalls == 2
\* number of registration calls (append_sampler, add_objects, ...)
MaxReg == 2
\* largest raw value the generator yields for one draw
MaxSeed == 2

\* ------------------------------------------------------------ objects
\* placeable objects, registered with samplers
Objs == {"a", "b", "c"}
\* objects the caller places in the table beforehand
Fixtures == {"shelf", "tbl"}
AllObjs == Objs \cup Fixtures

\* half side of the (square) footprint of an object
half_size(o) == IF o = "tbl" THEN 2 ELSE 1
\* obj.bottom_offset[-1]: z of the bottom of the object relative to its centre
bottom_offset(o) == IF o \in Objs THEN -1 ELSE 0
\* obj.top_offset[-1]: z of the top of the object relative to its centre
top_offset(o) == IF o \in Objs THEN 1 ELSE 4
\* isinstance(obj, MJCFObject)
is_MJCFObject(o) == o # "tbl"
\* hasattr(obj, "init_quat")
has_init_quat(o) == o = "b"
\* ref_obj.spawns: the spawn sites of an object, each given by its bottom offset
spawns(o) == IF o = "shelf" THEN << <<0, 0, 0>>, <<0, 0, 2>> >> ELSE << >>
\* ref_obj.get_spawn_bottom_offset(site)
get_spawn_bottom_offset(site) == site

\* ------------------------------------------------------------ vectors
Add3(p, q) == <<p[1] + q[1], p[2] + q[2], p[3] + q[3]>>
Dot2(p, q) == p[1] * q[1] + p[2] * q[2]
Sub2(p, q) == <<p[1] - q[1], p[2] - q[2]>>
Min(m, n) == IF m <= n THEN m ELSE n
Max(m, n) == IF m <= n THEN n ELSE m

\* rotate_2d_point(input, rot), rot in quarter turns
rotate_2d_point(p, rot) ==
    CASE rot % 4 = 0 -> <<p[1], p[2]>>
      [] rot % 4 = 1 -> <<0 - p[2], p[1]>>
      [] rot % 4 = 2 -> <<0 - p[1], 0 - p[2]>>
      [] rot % 4 = 3 -> <<p[2], 0 - p[1]>>

\* ------------------------------------------------------------ geometry oracle
\* the four corners of the footprint of object o at position pos
footprint(o, pos) ==
    { <<pos[1] + dx * half_size(o), pos[2] + dy * half_size(o)>> :
        dx \in {-1, 1}, dy \in {-1, 1} }

\* obj.get_bbox_points(trans, rot)[:3]: origin, +x corner, +y corner
get_bbox_points(o, pos) ==
    << <<pos[1] - half_size(o), pos[2] - half_size(o)>>,
       <<pos[1] + half_size(o), pos[2] - half_size(o)>>,
       <<pos[1] - half_size(o), pos[2] + half_size(o)>> >>

\* point q lies in the rectangle spanned by p0, px, py
point_in_region(q, p0, px, py) ==
    LET u == Sub2(px, p0)
        v == Sub2(py, p0)
    IN  /\ Dot2(u, p0) <= Dot2(u, q) /\ Dot2(u, q) <= Dot2(u, px)
        /\ Dot2(v, p0) <= Dot2(v, q) /\ Dot2(v, q) <= Dot2(v, py)

\* obj_in_region: the whole footprint lies in the rectangle
obj_in_region(o, pos, p0, px, py) ==
    \A q \in footprint(o, pos) : point_in_region(q, p0, px, py)

\* objs_intersect: the two boxes overlap in x, y and z
objs_intersect(o, pos, other, other_pos) ==
    LET Abs(n) == IF n < 0 THEN 0 - n ELSE n
    IN  /\ Abs(pos[1] - other_pos[1]) < half_size(o) + half_size(other)
        /\ Abs(pos[2] - other_pos[2]) < half_size(o) + half_size(other)
        /\ pos[3] + bottom_offset(o) < other_pos[3] + top_offset(other)
        /\ other_pos[3] + bottom_offset(other) < pos[3] + top_offset(o)

\* obj_in_region_with_keypoints: at least min_num_points of the key points
\* (centre and footprint corners) lie in the region
obj_in_region_with_keypoints(o, pos, region_points, min_num_points) ==
    LET keys == footprint(o, pos) \cup { <<pos[1], pos[2]>> }
        inside == { q \in keys : point_in_region(q, region_points[1],
                                                 region_points[2], region_points[3]) }
    IN  Cardinality(inside) >= min_num_points

\* ------------------------------------------------------------ values
\* a reference argument: None, a name, a (name, spawn_id) pair or an (x,y,z)
Ref(type, name, spawn_id, pos) ==
    [type |-> type, name |-> name, spawn_id |-> spawn_id, pos |-> pos]
NoRef == Ref("none", "", 0, <<0, 0, 0>>)
NameRef(n) == Ref("name", n, 0, <<0, 0, 0>>)
SpawnRef(n, id) == Ref("spawn", n, id, <<0, 0, 0>>)
PosRef(p) == Ref("xyz", "", 0, p)

\* a table entry (pos, quat, obj); quat is the product ref_quat * quat(axis,
\* angle) [* init_quat], kept as its factors
Entry(pos, quat, obj) == [pos |-> pos, quat |-> quat, obj |-> obj]
Quat(ref_rot, axis, angle, init) ==
    [ref_rot |-> ref_rot, axis |-> axis, angle |-> angle, init |-> init]
FixtureEntry(o, pos) == Entry(pos, Quat(0, "z", 0, FALSE), o)

EmptyTable == [n \in {} |-> FixtureEntry("shelf", <<0, 0, 0>>)]
\* dict.update / dict[key] = value
Update(t, u) == [n \in DOMAIN t \cup DOMAIN u |-> IF n \in DOMAIN u THEN u[n] ELSE t[n]]
Put(t, n, e) == [m \in DOMAIN t \cup {n} |-> IF m = n THEN e ELSE t[m]]

\* the sample_args dict of a sub-sampler: None or a dict over the keys
\* reference, on_top and neg_reference
Args(is_none, keys, reference, on_top, neg_reference) ==
    [is_none |-> is_none, keys |-> keys,
     reference |-> IF "reference" \in keys THEN reference ELSE NoRef,
     on_top |-> IF "on_top" \in keys THEN on_top ELSE TRUE,
     neg_reference |-> IF "neg_reference" \in keys THEN neg_reference ELSE << >>]
NoneArgs == Args(TRUE, {}, NoRef, TRUE, << >>)
EmptyArgs == Args(FALSE, {}, NoRef, TRUE, << >>)

\* ------------------------------------------------------------ samplers
\* sampler instances: two UniformRandomSamplers, the samplers the first and
\* the second call of hide build, a top-level and an inner
\* SequentialCompositeSampler
HideSamplers == {"H1", "H2"}
Uniforms == {"U1", "U2"} \cup HideSamplers
Composites == {"T", "I"}
Samplers == Uniforms \cup Composites
\* sampler.name
name_of(s) ==
    CASE s = "U1" -> "u1" [] s = "U2" -> "u2" [] s = "I" -> "inner" [] s = "T" -> "top"
      [] s \in HideSamplers -> "HideSampler"

VARIABLES
    cfg,               \* configuration of each UniformRandomSampler (set by __init__)
    mujoco_objects,    \* self.mujoco_objects of each sampler, a list of objects
    samplers,          \* self.samplers of each composite: list of (name, sampler)
    sample_args,       \* self.sample_args of each composite: list of (name, args)
    sampler_optional,  \* self.sampler_optional of each composite: list of (name, flag)
    spawn_active,      \* active flag of every spawn site of every object
    stack,             \* the sample calls in progress, innermost first
    ret,               \* what the call that ended last returned or raised
    call,              \* the arguments of the top-level call
    ncalls,            \* number of top-level sample calls made
    nreg,              \* number of registration calls made
    given_args,        \* history: sample_args as they were passed to append_sampler
    rng,               \* the generator: free, or recording / replaying its draws
    multi,             \* the MultiRegionSampler instance
    hosted,            \* history: the objects committed at each spawn site
    reserved           \* history: the spawn sites (object, index) resolved as a reference

vars == <<cfg, mujoco_objects, samplers, sample_args, sampler_optional, spawn_active,
          stack, ret, call, ncalls, nreg, rng, multi, given_args, hosted, reserved>>

\* the registration state, which a sample call only reads
reg_vars == <<mujoco_objects, samplers, sampler_optional, given_args, nreg>>

\* ------------------------------------------------------------ call frames
\* copy that hands back the dict it was given
copy_aliased(d) == [table |-> d, shared |-> TRUE]

\* lines 318 and 651: copy(placed_objects), a new dict with the same items
\* (shared: the result is the dict object that was passed)
copy(d) == [table |-> d, shared |-> FALSE]

\* the local variables of one sample call, and its history: the table it was
\* given (given) and, for a composite, the sub-samplers it has run with the
\* table each returned (ran); shared tells that the local placed_objects is
\* the dict object the caller passed, intact that the dict the caller passed
\* still holds what it held when it was passed
Frame(s, placed_objects, reference, on_top, neg_reference) ==
    [s |-> s, pc |-> IF s \in Uniforms THEN "begin" ELSE "samplers",
     placed_objects |-> copy(placed_objects).table,
     shared |-> copy(placed_objects).shared, intact |-> TRUE,
     reference |-> reference, on_top |-> on_top, neg_reference |-> neg_reference,
     base_offset |-> <<0, 0, 0>>, spawn_ref_obj |-> "", spawn_id |-> 0,
     i |-> 1, attempt |-> 0, skipped |-> {},
     given |-> placed_objects, ran |-> << >>]

\* what a call hands to its caller: the returned table, or the error raised
\* (by: the sampler whose call ended; obj: the object the error names;
\*  attempts: the attempts made for it; skipped: the optional sub-samplers
\*  whose failure was swallowed)
Outcome(kind, by, table, obj, attempts, skipped) ==
    [kind |-> kind, by |-> by, table |-> table, obj |-> obj, attempts |-> attempts,
     skipped |-> skipped]
NoOutcome == Outcome("none", "", EmptyTable, "", 0, {})

Top == stack[1]
Running == stack # << >>
InUniform == Running /\ Top.s \in Uniforms
InComposite == Running /\ Top.s \in Composites
\* the innermost call ends with outcome o
Leave(o) == stack' = Tail(stack) /\ ret' = o
\* Return with the entries of the sampler's own objects only
Return_new_only(table, skipped) ==
    LET objs == mujoco_objects[Top.s]
    IN  Outcome("return", Top.s,
                [n \in DOMAIN table \cap { objs[k] : k \in DOMAIN objs } |-> table[n]],
                "", 0, skipped)

\* the outcomes of the innermost call: a returned table, an error
Return(table, skipped) == Outcome("return", Top.s, table, "", 0, skipped)
\* Raise handing the table of the call to the caller
Raise_with_table(kind, obj, attempts) ==
    Outcome(kind, Top.s, Top.placed_objects, obj, attempts, {})

\* lines 510-511: an error leaves the call without a table
Raise(kind, obj, attempts) == Outcome(kind, Top.s, EmptyTable, obj, attempts, {})
\* placed_objects[...] = ... / placed_objects.update(...) in the call of
\* frame f (lines 503, 673): the local dict becomes table, and so does the
\* dict the caller passed when the two are one object
store(f, table) ==
    [f EXCEPT !.placed_objects = table, !.intact = IF f.shared THEN table = f.given ELSE @]
\* the innermost call goes on with its frame changed to f
Goto(f) == stack' = <<f>> \o Tail(stack) /\ ret' = NoOutcome

\* ------------------------------------------------------------ generator
\* the raw values of a draw
Seeds == 0..MaxSeed
\* the generator: draws are free ("free"), or they are logged on the tape
\* ("record"), or they are read from the tape ("replay": the generator was
\* put back into the state it had when the recording began); first is the
\* outcome of the recorded call
Generator(mode, tape, first) == [mode |-> mode, tape |-> tape, first |-> first]
\* the raw values the generator can yield next, one for each of the sets
\* drawn from: the values on the tape when it is replayed, and else one raw
\* value for each member of the set
draws(ranges) ==
    { d \in [DOMAIN ranges -> Seeds] :
        \A j \in DOMAIN ranges :
            IF rng.mode = "replay" /\ j <= Len(rng.tape) THEN d[j] = rng.tape[j]
            ELSE d[j] < Cardinality(ranges[j]) }
\* the generator after it has yielded d
drawn(d) ==
    CASE rng.mode = "record" -> [rng EXCEPT !.tape = @ \o d]
      [] rng.mode = "replay" -> [rng EXCEPT !.tape = SubSeq(@, Len(d) + 1, Len(@))]
      [] OTHER -> rng
\* rng.uniform / rng.choice over the finite set S: the raw value selects one
\* of the members of S
choice(S, seed) == CHOOSE x \in S : Cardinality({ y \in S : y < x }) = seed % Cardinality(S)

\* ------------------------------------------------------------ UniformRandomSampler.sample
\* the key the local variable `reference` holds after reference resolution
ref_key(reference) == reference.name

\* the indices of the spawns get_random_spawn(rng, exclude_disabled=True) may return
get_random_spawn(active) == { k \in 1..Len(active) : active[k] }

\* ref_obj.set_spawn_active(spawn_id, False) (line 353)
set_spawn_active(active, o, k) == [active EXCEPT ![o][k] = FALSE]

\* lines 381-392: the three corner points of the region
region_points(c, base_offset) ==
    LET corner(x, y) ==
            LET r == rotate_2d_point(<<x, y>>, c.reference_rot)
            IN  <<r[1] + base_offset[1], r[2] + base_offset[2]>>
    IN  << corner(c.x_range[1], c.y_range[1]),
           corner(c.x_range[2], c.y_range[1]),
           corner(c.x_range[1], c.y_range[2]) >>

\* object_pos without the bottom extent of the object
object_pos_centred(c, base_offset, on_top, obj, relative_x, relative_y) ==
    LET r == rotate_2d_point(<<relative_x, relative_y>>, c.reference_rot)
    IN  << r[1] + base_offset[1], r[2] + base_offset[2], c.z_offset + base_offset[3] >>

\* lines 396-408: the position of the candidate for the draw (relative_x, relative_y)
object_pos(c, base_offset, on_top, obj, relative_x, relative_y) ==
    LET r == rotate_2d_point(<<relative_x, relative_y>>, c.reference_rot)
    IN  << r[1] + base_offset[1], r[2] + base_offset[2],
           c.z_offset + base_offset[3] - (IF on_top THEN bottom_offset(obj) ELSE 0) >>

\* rng.uniform(low=minimum, high=maximum) of _sample_x and _sample_y
uniform(range) == Min(range[1], range[2]) .. Max(range[1], range[2])

\* _sample_quat, lines 264-273: the angles the rotation policy can draw
rot_angles(rotation) ==
    CASE rotation.kind = "none"  -> 0..3
      [] rotation.kind = "value" -> {rotation.lo}
      [] rotation.kind = "range" -> Min(rotation.lo, rotation.hi) .. Max(rotation.lo, rotation.hi)

\* lines 396-411: an attempt draws x, y and, unless the angle is fixed
\* (_sample_quat, lines 264-273), the angle
draw_ranges(c) ==
    <<uniform(c.x_range), uniform(c.y_range)>>
        \o (IF c.rotation.kind = "value" THEN << >> ELSE <<rot_angles(c.rotation)>>)

\* lines 411-421: the orientation of the candidate
object_quat(c, obj, rot_angle) ==
    Quat(c.reference_rot, c.rotation_axis, rot_angle, has_init_quat(obj))

\* boundary_ok testing the centre of the object in place of its footprint
boundary_ok_centre(c, obj, pos, base_offset) ==
    LET rp == region_points(c, base_offset)
    IN  ~c.ensure_object_boundary_in_range
        \/ point_in_region(<<pos[1], pos[2]>>, rp[1], rp[2], rp[3])

\* lines 426-435: the boundary check lets the candidate through
boundary_ok(c, obj, pos, base_offset) ==
    LET rp == region_points(c, base_offset)
    IN  ~c.ensure_object_boundary_in_range \/ obj_in_region(obj, pos, rp[1], rp[2], rp[3])

\* overlap_ok without its else branch: only the spawn owner is tested
overlap_ok_owner_only(c, placed_objects, spawn_ref_obj, obj, pos) ==
    ~c.ensure_valid_placement \/
    \A n \in DOMAIN placed_objects :
        LET other == placed_objects[n]
        IN  spawn_ref_obj # "" /\ other.obj = spawn_ref_obj
                => objs_intersect(obj, pos, other.obj, other.pos)

\* overlap_ok with the spawn owner left out of the test
overlap_ok_owner_exempt(c, placed_objects, spawn_ref_obj, obj, pos) ==
    ~c.ensure_valid_placement \/
    \A n \in DOMAIN placed_objects :
        LET other == placed_objects[n]
        IN  (spawn_ref_obj # "" /\ other.obj = spawn_ref_obj)
                \/ ~objs_intersect(obj, pos, other.obj, other.pos)

\* lines 438-461: the overlap check leaves location_valid true
overlap_ok(c, placed_objects, spawn_ref_obj, obj, pos) ==
    ~c.ensure_valid_placement \/
    \A n \in DOMAIN placed_objects :
        LET other == placed_objects[n]
        IN  IF spawn_ref_obj # "" /\ other.obj = spawn_ref_obj
            THEN objs_intersect(obj, pos, other.obj, other.pos)
            ELSE ~objs_intersect(obj, pos, other.obj, other.pos)

\* line 464: the in-reference-region check is made
in_ref_checked(c, reference) ==
    c.ensure_object_in_ref_region /\ reference.type # "none"

\* lines 465-474: the result of the key point test against the reference
in_ref_ok(placed_objects, reference, obj, pos) ==
    LET e == placed_objects[ref_key(reference)]
    IN  obj_in_region_with_keypoints(obj, pos, get_bbox_points(e.obj, e.pos), 3)

\* lines 478-501: the exclusion loop over neg_reference: "assert" when a name
\* is missing from the table, else whether the candidate is inside a region
RECURSIVE out_ref_scan(_, _, _, _)
out_ref_scan(placed_objects, neg_reference, obj, pos) ==
    IF neg_reference = << >> THEN "outside"
    ELSE LET nf == Head(neg_reference)
         IN  IF nf \notin DOMAIN placed_objects THEN "assert"
             ELSE LET e == placed_objects[nf]
                      bb == get_bbox_points(e.obj, e.pos)
                  IN  IF obj_in_region(obj, pos, bb[1], bb[2], bb[3])
                      THEN "inside"
                      ELSE out_ref_scan(placed_objects, Tail(neg_reference), obj, pos)

\* resolve_spawn_flags without the call of set_spawn_active
resolve_spawn_flags_kept(active, o, k) == active

\* lines 347-353: the spawn flags after the reference (o, spawn k) is resolved
resolve_spawn_flags(active, o, k) == set_spawn_active(active, o, k)

\* the failure of a sampler that has used up its retry budget
reference_error_exhausted == "RandomizationError"

\* lines 325-330 and 339-344: the failure of `assert reference in placed_objects`
reference_error == "AssertionError"

\* lines 317-364: copy the table and resolve the reference into base_offset
UniformBegin ==
    /\ InUniform /\ Top.pc = "begin"
    /\ LET f == Top
           c == cfg[f.s]
           ref == f.reference
           placed == f.placed_objects
           go(base, owner, k) ==
               Goto([f EXCEPT !.pc = "objects", !.base_offset = base,
                              !.spawn_ref_obj = owner, !.spawn_id = k])
       IN  CASE ref.type = "none" ->
                  /\ go(c.reference_pos, "", 0)
                  /\ UNCHANGED <<spawn_active, reserved, rng>>
             [] ref.type = "name" ->
                  /\ IF ref.name \notin DOMAIN placed
                     THEN Leave(Raise(reference_error, ref.name, 0))
                     ELSE LET e == placed[ref.name]
                          IN  go(IF f.on_top
                                 THEN Add3(e.pos, <<0, 0, top_offset(e.obj)>>)
                                 ELSE e.pos, "", 0)
                  /\ UNCHANGED <<spawn_active, reserved, rng>>
             [] ref.type = "spawn" ->
                  IF ref.name \notin DOMAIN placed
                  THEN Leave(Raise(reference_error, ref.name, 0))
                       /\ UNCHANGED <<spawn_active, reserved, rng>>
                  ELSE LET e == placed[ref.name]
                           resolve(k) ==
                               /\ spawn_active' = resolve_spawn_flags(spawn_active, e.obj, k)
                               /\ reserved' = reserved \cup {<<e.obj, k>>}
                               /\ go(Add3(e.pos, get_spawn_bottom_offset(spawns(e.obj)[k])),
                                     e.obj, k)
                       IN  IF ~is_MJCFObject(e.obj)
                           THEN Leave(Raise("AssertionError", ref.name, 0))
                                /\ UNCHANGED <<spawn_active, reserved, rng>>
                           ELSE IF ref.spawn_id = -1
                           THEN IF get_random_spawn(spawn_active[e.obj]) = {}
                                THEN Leave(Raise("ValueError", ref.name, 0))
                                     /\ UNCHANGED <<spawn_active, reserved, rng>>
                                ELSE \E d \in draws(<<get_random_spawn(spawn_active[e.obj])>>) :
                                       /\ resolve(choice(get_random_spawn(spawn_active[e.obj]),
                                                         d[1]))
                                       /\ rng' = drawn(d)
                           ELSE IF ref.spawn_id + 1 \in 1..Len(spawns(e.obj))
                           THEN resolve(ref.spawn_id + 1) /\ UNCHANGED rng
                           ELSE Leave(Raise("IndexError", ref.name, 0))
                                /\ UNCHANGED <<spawn_active, reserved, rng>>
             [] ref.type = "xyz" ->
                  /\ go(ref.pos, "", 0)
                  /\ UNCHANGED <<spawn_active, reserved, rng>>
    /\ UNCHANGED <<cfg, reg_vars, sample_args, call, ncalls, multi, hosted>>

\* already_sampled without the test of the table
already_sampled_never(placed_objects, obj) == FALSE

\* lines 369-371: the object has an entry in the table of the call
already_sampled(placed_objects, obj) == obj \in DOMAIN placed_objects

\* lines 367-392: the head of the loop over the objects of the sampler, and
\* line 513 when the loop is over
UniformNextObject ==
    /\ InUniform /\ Top.pc = "objects"
    /\ LET f == Top
           objs == mujoco_objects[f.s]
       IN  IF f.i > Len(objs)
           THEN Leave(Return(f.placed_objects, {}))
           ELSE IF already_sampled(f.placed_objects, objs[f.i])
           THEN Leave(Raise("AssertionError", objs[f.i], 0))
           ELSE Goto([f EXCEPT !.pc = "attempts", !.attempt = 0])
    /\ UNCHANGED <<cfg, reg_vars, sample_args, spawn_active, call, ncalls, rng, multi,
                   hosted, reserved>>

\* lines 411-508: what one attempt with candidate position pos leads to:
\* "continue" (try again), "commit", "break" (leave the retry loop without
\* success) or the error raised (ValueError by _sample_quat, lines 282-288)
attempt_outcome(c, f, obj, pos) ==
    IF c.rotation_axis \notin {"x", "y", "z"} THEN "ValueError"
    ELSE IF ~boundary_ok(c, obj, pos, f.base_offset) THEN "continue"
    ELSE IF in_ref_checked(c, f.reference) /\ f.reference.type = "xyz" THEN "KeyError"
    ELSE IF in_ref_checked(c, f.reference)
            /\ ~in_ref_ok(f.placed_objects, f.reference, obj, pos) THEN "break"
    ELSE LET scan == IF c.ensure_object_out_of_ref_region
                     THEN out_ref_scan(f.placed_objects, f.neg_reference, obj, pos)
                     ELSE "outside"
         IN  IF scan = "assert" THEN "AssertionError"
             ELSE IF overlap_ok(c, f.placed_objects, f.spawn_ref_obj, obj, pos)
                     /\ scan = "outside"
             THEN "commit"
             ELSE "continue"

\* next_attempt for a loop that does not count its rounds
next_attempt_uncounted(attempt) == attempt

\* line 394, `for i in range(self.num_attempts)`: the round after round attempt
next_attempt(attempt) == attempt + 1

\* lines 394-508: one pass through the retry loop
UniformAttempt ==
    /\ InUniform /\ Top.pc = "attempts"
    /\ LET f == Top
           c == cfg[f.s]
           obj == mujoco_objects[f.s][f.i]
       IN  /\ f.attempt < c.num_attempts
           /\ \E d \in draws(draw_ranges(c)) :
                LET relative_x == choice(uniform(c.x_range), d[1])
                    relative_y == choice(uniform(c.y_range), d[2])
                    rot_angle == IF Len(d) = 3 THEN choice(rot_angles(c.rotation), d[3])
                                 ELSE c.rotation.lo
                    pos == object_pos(c, f.base_offset, f.on_top, obj, relative_x, relative_y)
                    quat == object_quat(c, obj, rot_angle)
                    out == attempt_outcome(c, f, obj, pos)
                IN  /\ rng' = drawn(d)
                    /\ CASE out = "continue" ->
                           /\ Goto([f EXCEPT !.attempt = next_attempt(@)])
                           /\ UNCHANGED hosted
                      [] out = "commit" ->
                           /\ Goto([store(f, Put(f.placed_objects, obj, Entry(pos, quat, obj)))
                                      EXCEPT !.pc = "objects", !.i = @ + 1])
                           /\ hosted' = IF f.spawn_ref_obj = "" THEN hosted
                                        ELSE [hosted EXCEPT ![f.spawn_ref_obj][f.spawn_id]
                                                                = @ \cup {obj}]
                      [] out = "break" ->
                           /\ Leave(Raise("RandomizationError", obj, f.attempt + 1))
                           /\ UNCHANGED hosted
                      [] OTHER ->
                           /\ Leave(Raise(out, obj, f.attempt + 1))
                           /\ UNCHANGED hosted
    /\ UNCHANGED <<cfg, reg_vars, sample_args, spawn_active, call, ncalls, multi, reserved>>

\* lines 394, 510-511: the retry budget is used up
UniformExhausted ==
    /\ InUniform /\ Top.pc = "attempts"
    /\ Top.attempt >= cfg[Top.s].num_attempts
    /\ Leave(Raise("RandomizationError", mujoco_objects[Top.s][Top.i], Top.attempt))
    /\ UNCHANGED <<cfg, reg_vars, sample_args, spawn_active, call, ncalls, rng, multi,
                   hosted, reserved>>

\* ------------------------------------------------------------ registration
\* an OrderedDict as the list of its (name, value) items
od_keys(d) == { d[k].name : k \in 1..Len(d) }
od_index(d, name) == CHOOSE k \in 1..Len(d) : d[k].name = name
od_get(d, name) == d[od_index(d, name)].value
\* d[name] = value: a new key goes to the end, a known key keeps its place
od_set(d, name, value) ==
    IF name \in od_keys(d) THEN [d EXCEPT ![od_index(d, name)].value = value]
    ELSE Append(d, [name |-> name, value |-> value])

Range(seq) == { seq[k] : k \in 1..Len(seq) }

\* `for obj in objs: assert obj not in list; list.append(obj)` (lines 88-92,
\* 550-554, 602-606): the list when the loop ends or the assertion fails
RECURSIVE append_all(_, _)
append_all(list, objs) ==
    IF objs = << >> THEN [list |-> list, ok |-> TRUE]
    ELSE IF Head(objs) \in Range(list) THEN [list |-> list, ok |-> FALSE]
    ELSE append_all(Append(list, Head(objs)), Tail(objs))

\* the outcome of a registration call made by sampler s
Registered(s, ok, error) ==
    Outcome(IF ok THEN "registered" ELSE error, s, EmptyTable, "", 0, {})

\* composite.append_sampler(sampler, sample_args, optional), lines 550-557
append_sampler(c, sampler, args, optional) ==
    LET r == append_all(mujoco_objects[c], mujoco_objects[sampler])
    IN  /\ mujoco_objects' = [mujoco_objects EXCEPT ![c] = r.list]
        /\ IF r.ok
           THEN /\ samplers' = [samplers EXCEPT ![c] = od_set(@, name_of(sampler), sampler)]
                /\ sample_args' = [sample_args EXCEPT ![c] = od_set(@, name_of(sampler), args)]
                /\ sampler_optional' =
                       [sampler_optional EXCEPT ![c] = od_set(@, name_of(sampler), optional)]
                /\ given_args' = [given_args EXCEPT ![c] = od_set(@, name_of(sampler), args)]
           ELSE UNCHANGED <<samplers, sample_args, sampler_optional, given_args>>
        /\ ret' = Registered(c, r.ok, "AssertionError")

\* sampler.add_objects(objs): lines 83-92 on a uniform sampler, lines 580-586
\* on a composite
add_objects(s, objs) ==
    /\ IF s \in Composites
       THEN /\ UNCHANGED mujoco_objects
            /\ ret' = Registered(s, FALSE, "AttributeError")
       ELSE LET r == append_all(mujoco_objects[s], objs)
            IN  /\ mujoco_objects' = [mujoco_objects EXCEPT ![s] = r.list]
                /\ ret' = Registered(s, r.ok, "AssertionError")
    /\ UNCHANGED <<samplers, sample_args, sampler_optional, given_args>>

\* composite.add_objects_to_sampler(sampler_name, objs), lines 597-613
add_objects_to_sampler(c, sampler_name, objs) ==
    LET r == append_all(mujoco_objects[c], objs)
    IN  /\ IF ~r.ok \/ sampler_name \notin od_keys(samplers[c])
           THEN /\ mujoco_objects' = [mujoco_objects EXCEPT ![c] = r.list]
                /\ ret' = Registered(c, FALSE, "AssertionError")
           ELSE LET sub == od_get(samplers[c], sampler_name)
                    q == append_all(mujoco_objects[sub], objs)
                IN  IF sub \in Composites
                    THEN /\ mujoco_objects' = [mujoco_objects EXCEPT ![c] = r.list]
                         /\ ret' = Registered(c, FALSE, "AttributeError")
                    ELSE /\ mujoco_objects' = [mujoco_objects EXCEPT ![c] = r.list,
                                                                     ![sub] = q.list]
                         /\ ret' = Registered(c, q.ok, "AssertionError")
        /\ UNCHANGED <<samplers, sample_args, sampler_optional, given_args>>

\* the sample_args a sub-sampler is registered with
ArgChoices(sampler) ==
    CASE sampler = "U2" -> {NoneArgs, Args(FALSE, {"reference"}, SpawnRef("shelf", 0), TRUE, << >>)}
      [] OTHER -> {NoneArgs}
\* the samplers that are appended to composite c (the inner composite is
\* filled when it is built, see InitComposite)
SubChoices(c) == IF c = "T" THEN {"U1", "U2", "I"} ELSE {"U1", "U2"}

\* the registration calls are made before the first sample call
CanRegister == ~Running /\ ncalls = 0 /\ nreg < MaxReg
RegFrame == /\ nreg' = nreg + 1
            /\ UNCHANGED <<cfg, spawn_active, stack, call, ncalls, rng, multi, hosted, reserved>>

AppendSampler ==
    /\ CanRegister
    /\ \E sampler \in SubChoices("T") :
       \E args \in ArgChoices(sampler), optional \in BOOLEAN :
           append_sampler("T", sampler, args, optional)
    /\ RegFrame

AddObjects ==
    /\ CanRegister
    /\ \E s \in Uniforms \ HideSamplers, o \in Objs : add_objects(s, <<o>>)
    /\ RegFrame

AddObjectsToSampler ==
    /\ CanRegister
    /\ \E sampler \in {"U1", "U2"}, o \in Objs :
           add_objects_to_sampler("T", name_of(sampler), <<o>>)
    /\ RegFrame

\* ------------------------------------------------------------ SequentialCompositeSampler.sample
\* lines 656-660: the arguments of the sub-sampler's call; reference and
\* on_top of the composite's own call fill the keys the dict does not hold
fill_args(s_args, reference, on_top) ==
    [is_none |-> FALSE,
     keys |-> s_args.keys \cup {"reference", "on_top"},
     reference |-> IF "reference" \in s_args.keys THEN s_args.reference ELSE reference,
     on_top |-> IF "on_top" \in s_args.keys THEN s_args.on_top ELSE on_top,
     neg_reference |-> s_args.neg_reference]

\* lines 656-660: the dict registered for the sub-sampler after the call's
\* arguments were prepared (a dict is filled in place, None stays None)
stored_args(registered, reference, on_top) ==
    IF registered.is_none THEN registered
    ELSE fill_args(registered, reference, on_top)

\* lines 676-681: the names of the objects of the sub-samplers of c
sampled_obj_names(c) ==
    UNION { Range(mujoco_objects[samplers[c][k].value]) : k \in 1..Len(samplers[c]) }

Restrict(t, names) == [n \in DOMAIN t \cap names |-> t[n]]

\* swallowed with every failure re-raised
swallowed_never(optional, kind) == FALSE

\* swallowed without the test of the optional flag
swallowed_any(optional, kind) == kind = "RandomizationError"

\* lines 667-671: a failure of kind `kind` of a sub-sampler is swallowed
swallowed(optional, kind) == kind = "RandomizationError" /\ optional

\* next_sampler walking the sub-samplers from the last one registered
next_sampler_reversed(registered, i) == registered[Len(registered) + 1 - i].value

\* line 654: the i-th sub-sampler of the loop over self.samplers.values()
next_sampler(registered, i) == registered[i].value

\* one run of a sub-sampler, as a composite's frame remembers it
Ran(sub, ok, table) == [s |-> sub, ok |-> ok, table |-> table]

\* lines 654-666 and 675-681: the head of the loop over the sub-samplers: the
\* next sub-sampler is called, or the loop is over and the table is returned
CompositeNextSampler ==
    /\ InComposite /\ Top.pc = "samplers"
    /\ LET f == Top
           c == f.s
       IN  IF f.i > Len(samplers[c])
           THEN /\ Leave(Return(Restrict(f.placed_objects, sampled_obj_names(c)), f.skipped))
                /\ UNCHANGED sample_args
           ELSE LET sub == next_sampler(samplers[c], f.i)
                    registered == sample_args[c][f.i].value
                    s_args == fill_args(IF registered.is_none THEN EmptyArgs ELSE registered,
                                        f.reference, f.on_top)
                IN  /\ sample_args' = [sample_args EXCEPT ![c][f.i].value =
                                          stored_args(registered, f.reference, f.on_top)]
                    /\ IF sub \in Composites /\ "neg_reference" \in s_args.keys
                       THEN Leave(Raise("TypeError", "", 0))
                       ELSE /\ stack' = << Frame(sub, f.placed_objects, s_args.reference,
                                                 s_args.on_top, s_args.neg_reference),
                                           [f EXCEPT !.pc = "wait"] >> \o Tail(stack)
                            /\ ret' = NoOutcome
    /\ UNCHANGED <<cfg, reg_vars, spawn_active, call, ncalls, rng, multi, hosted, reserved>>

\* lines 662-673: the sub-sampler's call has ended: its table is merged, its
\* failure is swallowed, or its failure ends the composite's call
CompositeResume ==
    /\ InComposite /\ Top.pc = "wait"
    /\ LET f == Top
           c == f.s
           sub == next_sampler(samplers[c], f.i)
           optional == od_get(sampler_optional[c], name_of(sub))
       IN  IF ret.kind = "return"
           THEN Goto([store(f, Update(f.placed_objects, ret.table))
                        EXCEPT !.pc = "samplers", !.i = @ + 1,
                               !.skipped = @ \cup ret.skipped,
                               !.ran = Append(@, Ran(sub, TRUE, ret.table))])
           ELSE IF swallowed(optional, ret.kind)
           THEN Goto([f EXCEPT !.pc = "samplers", !.i = @ + 1, !.skipped = @ \cup {sub},
                               !.ran = Append(@, Ran(sub, FALSE, EmptyTable))])
           ELSE Leave(ret)
    /\ UNCHANGED <<cfg, reg_vars, sample_args, spawn_active, call, ncalls, rng, multi,
                   hosted, reserved>>

\* ------------------------------------------------------------ reset
\* the samplers reset(s) clears: s itself (lines 94-98) and, for a composite,
\* every sub-sampler in turn (lines 619-621)
RECURSIVE reset_set(_)
reset_set(s) ==
    IF s \in Uniforms THEN {s}
    ELSE {s} \cup UNION { reset_set(samplers[s][k].value) : k \in 1..Len(samplers[s]) }

\* lines 94-98 and 615-621: s.reset()
reset(s) ==
    /\ mujoco_objects' = [x \in Samplers |->
                            IF x \in reset_set(s) THEN << >> ELSE mujoco_objects[x]]
    /\ ret' = Outcome("reset", s, EmptyTable, "", 0, {})

\* sampler.reset() called from outside between two sample calls
Reset ==
    /\ ~Running /\ ncalls > 0
    /\ \E s \in Composites : mujoco_objects[s] # << >> /\ reset(s)
    /\ UNCHANGED <<cfg, samplers, sample_args, sampler_optional, given_args, nreg, rng, multi,
                   spawn_active, stack, call, ncalls, hosted, reserved>>

\* T.reset() called from outside before the first sample call
ResetRegistered ==
    /\ ~Running /\ ncalls = 0
    /\ mujoco_objects["T"] # << >> /\ reset("T")
    /\ UNCHANGED <<cfg, samplers, sample_args, sampler_optional, given_args, nreg, rng, multi,
                   spawn_active, stack, call, ncalls, hosted, reserved>>

\* ------------------------------------------------------------ callers
\* the tables a caller passes: nothing, the fixtures, or the fixtures and an
\* object placed beforehand (the first or the second of the sampler)
Fix == [n \in Fixtures |-> IF n = "shelf" THEN FixtureEntry("shelf", <<4, 1, 0>>)
                                          ELSE FixtureEntry("tbl", <<0, 4, 0>>)]
FixA == Put(Fix, "a", FixtureEntry("a", <<8, 8, 1>>))
FixB == Put(Fix, "b", FixtureEntry("b", <<8, 8, 1>>))

\* the (table, reference) pairs a caller passes to a uniform sampler
UniformCalls ==
    ({EmptyTable} \X {NoRef, NameRef("ghost"), PosRef(<<5, 5, 0>>)})
    \cup ({Fix} \X {NoRef, NameRef("shelf"), NameRef("ghost"), SpawnRef("shelf", 0),
                    SpawnRef("shelf", -1), SpawnRef("tbl", 0), SpawnRef("ghost", -1),
                    PosRef(<<5, 5, 0>>)})
    \cup ({FixA, FixB} \X {NoRef})
\* the neg_reference arguments a caller passes to sampler s
NegChoices(s) ==
    IF cfg[s].ensure_object_out_of_ref_region THEN {<< >>, <<"shelf">>, <<"ghost">>}
    ELSE {<< >>}

\* sampler.sample(placed_objects=table, reference=..., neg_reference=..., on_top=...)
\* called from outside on sampler s
Call(s, table, reference, on_top, neg_reference) ==
    /\ ~Running /\ ncalls < MaxCalls
    /\ stack' = << Frame(s, table, reference, on_top, neg_reference) >>
    /\ ret' = NoOutcome
    /\ call' = [s |-> s, placed_objects |-> table, reference |-> reference,
                on_top |-> on_top, neg_reference |-> neg_reference]
    /\ ncalls' = ncalls + 1
    /\ UNCHANGED <<cfg, reg_vars, sample_args, spawn_active, multi, hosted, reserved>>

\* a call on U1; the spawn flags are all that an earlier call leaves behind,
\* so that the calls after the first are those with a spawn reference
CallUniform ==
    \E tr \in UniformCalls, on_top \in BOOLEAN, neg_reference \in NegChoices("U1") :
        /\ ncalls = 0 \/ tr[2].type = "spawn"
        /\ Call("U1", tr[1], tr[2], on_top, neg_reference)
        /\ UNCHANGED rng

\* ------------------------------------------------------------ construction
\* UniformRandomSampler.__init__, lines 211-232
UniformConfig(x_range, y_range, rotation, rotation_axis, boundary, valid, in_ref, out_ref, reference_pos, reference_rot, z_offset, num_attempts) ==
    [x_range |-> x_range, y_range |-> y_range, rotation |-> rotation,
     rotation_axis |-> rotation_axis,
     ensure_object_boundary_in_range |-> boundary, ensure_valid_placement |-> valid,
     ensure_object_in_ref_region |-> in_ref, ensure_object_out_of_ref_region |-> out_ref,
     reference_pos |-> reference_pos, reference_rot |-> reference_rot,
     z_offset |-> z_offset, num_attempts |-> num_attempts]

Rotation(kind, lo, hi) == [kind |-> kind, lo |-> lo, hi |-> hi]

\* no MultiRegionSampler has been constructed: regions and side are the
\* arguments of the construction, sides and samplers the attributes it sets,
\* has_rng whether it sets self.rng, chosen the children the last sample
\* call has called
NoMulti ==
    [built |-> FALSE, error |-> "", has_rng |-> FALSE, regions |-> << >>, side |-> "",
     sides |-> << >>, samplers |-> << >>, chosen |-> << >>]

\* the state the samplers are in before any call
InitCommon ==
    /\ spawn_active = [o \in AllObjs |-> [k \in 1..Len(spawns(o)) |-> TRUE]]
    /\ hosted = [o \in AllObjs |-> [k \in 1..Len(spawns(o)) |-> {}]]
    /\ reserved = {}
    /\ stack = << >>
    /\ ret = NoOutcome
    /\ call = [s |-> "U1", placed_objects |-> EmptyTable, reference |-> NoRef,
               on_top |-> TRUE, neg_reference |-> << >>]
    /\ ncalls = 0
    /\ nreg = 0
    /\ rng = Generator("free", << >>, NoOutcome)
    /\ multi = NoMulti

\* line 201: the default retry budget of a UniformRandomSampler
DefaultAttempts == 5000

\* lines 566-577: the configuration of the sampler that hide builds
HideConfig ==
    UniformConfig(<<-10, -20>>, <<-10, -20>>, Rotation("range", 0, 0), "z",
                  FALSE, FALSE, FALSE, FALSE, <<0, 0, 0>>, 0, 10, DefaultAttempts)

\* the configuration of U2 and of U1 in a composite: a single position for
\* U1, three positions in a row for U2, overlap check only
SmallConfig(u) ==
    IF u \in HideSamplers THEN HideConfig
    ELSE UniformConfig(IF u = "U1" THEN <<0, 0>> ELSE <<0, 2>>, <<0, 0>>,
                       Rotation("value", 0, 0),
                       "z", FALSE, TRUE, FALSE, FALSE, <<0, 0, 0>>, 0, 0, 1)

\* the orientation variants of U1: reference_rot and rotation_axis
Variants == { <<0, "z">>, <<1, "z">>, <<1, "w">> }

\* U1 samples two objects over a 2 x 2 region, built with any combination of
\* the four checks and any retry budget
Init ==
    /\ InitCommon
    /\ \E boundary \in BOOLEAN, valid \in BOOLEAN, in_ref \in BOOLEAN, out_ref \in BOOLEAN,
          num_attempts \in 0..MaxAttempts, v \in Variants :
         cfg = [u \in Uniforms |->
                  IF u = "U1"
                  THEN UniformConfig(<<0, 2>>, <<0, 2>>, Rotation("value", 0, 0), v[2],
                                     boundary, valid, in_ref, out_ref, <<0, 0, 0>>,
                                     v[1], 0, num_attempts)
                  ELSE SmallConfig(u)]
    /\ mujoco_objects = [s \in Samplers |-> IF s = "U1" THEN <<"a", "b">> ELSE << >>]
    /\ samplers = [c \in Composites |-> << >>]
    /\ sample_args = [c \in Composites |-> << >>]
    /\ sampler_optional = [c \in Composites |-> << >>]
    /\ given_args = [c \in Composites |-> << >>]

Next ==
    \/ CallUniform
    \/ UniformBegin
    \/ UniformNextObject
    \/ UniformAttempt
    \/ UniformExhausted

Spec == Init /\ [][Next]_vars

\* the (table, reference, on_top) triples a caller passes to the composite T
CompositeCalls ==
    { <<Fix, NoRef, TRUE>>, <<Fix, NoRef, FALSE>>,
      <<Fix, SpawnRef("shelf", 0), TRUE>>, <<Fix, SpawnRef("shelf", -1), TRUE>> }

CallComposite ==
    /\ \E a \in CompositeCalls : Call("T", a[1], a[2], a[3], << >>)
    /\ UNCHANGED rng

\* the composite T, the inner composite I and their sub-samplers U1 and U2:
\* U1 and U2 are built with one object each or U2 with two; the inner
\* composite is empty or already holds a U2 of one object
InitComposite ==
    /\ InitCommon
    /\ cfg = [u \in Uniforms |-> SmallConfig(u)]
    /\ \E both \in BOOLEAN, inner \in BOOLEAN :
         /\ ~(both /\ inner)
         /\ mujoco_objects =
              [s \in Samplers |->
                 CASE s = "U1" -> IF both THEN <<"c">> ELSE <<"a">>
                   [] s = "U2" -> IF both THEN <<"a", "b">> ELSE <<"b">>
                   [] s = "I"  -> IF inner THEN <<"b">> ELSE << >>
                   [] OTHER    -> << >>]
         /\ samplers = [c \in Composites |->
                          IF c = "I" /\ inner THEN od_set(<< >>, "u2", "U2") ELSE << >>]
         /\ sample_args = [c \in Composites |->
                             IF c = "I" /\ inner THEN od_set(<< >>, "u2", NoneArgs) ELSE << >>]
         /\ sampler_optional = [c \in Composites |->
                                  IF c = "I" /\ inner THEN od_set(<< >>, "u2", FALSE) ELSE << >>]
         /\ given_args = sample_args

NextComposite ==
    \/ AppendSampler
    \/ AddObjects
    \/ AddObjectsToSampler
    \/ Reset
    \/ CallComposite
    \/ CompositeNextSampler
    \/ CompositeResume
    \/ UniformBegin
    \/ UniformNextObject
    \/ UniformAttempt
    \/ UniformExhausted

SpecComposite == InitComposite /\ [][NextComposite]_vars

\* ------------------------------------------------------------ registration in a tree
\* the composite T after append_sampler(U1) and append_sampler(U2), U1 built
\* with object a and U2 with object b, or with b and c
TreeRegistered ==
    /\ \E rest \in {<<"b">>, <<"b", "c">>} :
         mujoco_objects = [s \in Samplers |->
                             CASE s = "U1" -> <<"a">>
                               [] s = "U2" -> rest
                               [] s = "T"  -> <<"a">> \o rest
                               [] OTHER    -> << >>]
    /\ samplers = [c \in Composites |->
                     IF c = "T" THEN od_set(od_set(<< >>, "u1", "U1"), "u2", "U2") ELSE << >>]
    /\ sample_args = [c \in Composites |->
                        IF c = "T" THEN od_set(od_set(<< >>, "u1", NoneArgs), "u2", NoneArgs)
                        ELSE << >>]
    /\ sampler_optional = [c \in Composites |->
                             IF c = "T" THEN od_set(od_set(<< >>, "u1", FALSE), "u2", FALSE)
                             ELSE << >>]
    /\ given_args = sample_args

InitTree ==
    /\ InitCommon
    /\ cfg = [u \in Uniforms |-> SmallConfig(u)]
    /\ TreeRegistered

NextTree ==
    \/ AppendSampler
    \/ AddObjects
    \/ AddObjectsToSampler

SpecTree == InitTree /\ [][NextTree]_vars

\* ------------------------------------------------------------ reset and registration again
\* the composite T after append_sampler(U1) and append_sampler(I), the inner
\* composite I after append_sampler(U2); U1 built with object a and U2 with
\* object b, or with b and c
InitReset ==
    /\ InitCommon
    /\ cfg = [u \in Uniforms |-> SmallConfig(u)]
    /\ \E rest \in {<<"b">>, <<"b", "c">>} :
         mujoco_objects = [s \in Samplers |->
                             CASE s = "U1" -> <<"a">>
                               [] s = "U2" -> rest
                               [] s = "I"  -> rest
                               [] s = "T"  -> <<"a">> \o rest
                               [] OTHER    -> << >>]
    /\ samplers = [c \in Composites |->
                     IF c = "T" THEN od_set(od_set(<< >>, "u1", "U1"), "inner", "I")
                     ELSE od_set(<< >>, "u2", "U2")]
    /\ \E optional \in BOOLEAN :
         sampler_optional = [c \in Composites |->
                               IF c = "T" THEN od_set(od_set(<< >>, "u1", optional), "inner", FALSE)
                               ELSE od_set(<< >>, "u2", FALSE)]
    /\ sample_args = [c \in Composites |->
                        IF c = "T" THEN od_set(od_set(<< >>, "u1", NoneArgs), "inner", NoneArgs)
                        ELSE od_set(<< >>, "u2", NoneArgs)]
    /\ given_args = sample_args

NextReset ==
    \/ ResetRegistered
    \/ Reset
    \/ AddObjects
    \/ AddObjectsToSampler
    \/ CallComposite
    \/ CompositeNextSampler
    \/ CompositeResume
    \/ UniformBegin
    \/ UniformNextObject
    \/ UniformAttempt
    \/ UniformExhausted

SpecReset == InitReset /\ [][NextReset]_vars

\* ------------------------------------------------------------ calls that run to their end
\* the composite T of U1 and U2, the sub-samplers built with any retry budget
InitLive ==
    /\ InitCommon
    /\ \E n \in 0..MaxAttempts :
         cfg = [u \in Uniforms |->
                  IF u \in HideSamplers THEN HideConfig
                  ELSE [SmallConfig(u) EXCEPT !.num_attempts = n]]
    /\ TreeRegistered

\* the next statement of the call in progress
Step ==
    \/ CompositeNextSampler
    \/ CompositeResume
    \/ UniformBegin
    \/ UniformNextObject
    \/ UniformAttempt
    \/ UniformExhausted

NextLive ==
    \/ CallComposite
    \/ Step

\* a call is synchronous: while it is in progress its next statement is run
SpecLive == InitLive /\ [][NextLive]_vars /\ WF_vars(Step)

\* ------------------------------------------------------------ hide
\* composite.hide(objs), lines 566-578: sampler h is built with the objects and
\* handed to append_sampler (lines 550-557) under its name "HideSampler"
hide(c, h, objs) ==
    LET r == append_all(mujoco_objects[c], objs)
    IN  /\ mujoco_objects' = [mujoco_objects EXCEPT ![c] = r.list,
                                                     ![h] = IF r.ok THEN objs ELSE @]
        /\ IF r.ok
           THEN /\ samplers' = [samplers EXCEPT ![c] = od_set(@, name_of(h), h)]
                /\ sample_args' = [sample_args EXCEPT ![c] = od_set(@, name_of(h), NoneArgs)]
                /\ sampler_optional' =
                       [sampler_optional EXCEPT ![c] = od_set(@, name_of(h), FALSE)]
                /\ given_args' = [given_args EXCEPT ![c] = od_set(@, name_of(h), NoneArgs)]
           ELSE UNCHANGED <<samplers, sample_args, sampler_optional, given_args>>
        /\ ret' = Registered(c, r.ok, "AssertionError")

Hide ==
    /\ CanRegister
    /\ mujoco_objects["H2"] = << >>
    /\ \E o \in Objs :
         hide("T", IF mujoco_objects["H1"] = << >> THEN "H1" ELSE "H2", <<o>>)
    /\ RegFrame

NextHide ==
    \/ Hide
    \/ AppendSampler
    \/ CallComposite
    \/ Step

SpecHide == InitComposite /\ [][NextHide]_vars

\* ------------------------------------------------------------ repeated calls
\* a call on U1 whose draws are recorded
CallRecorded ==
    \E tr \in UniformCalls, on_top \in BOOLEAN, neg_reference \in NegChoices("U1") :
        /\ ncalls = 0
        /\ Call("U1", tr[1], tr[2], on_top, neg_reference)
        /\ rng' = Generator("record", << >>, NoOutcome)

\* the same call again, on the same sampler and objects, right after the
\* first has ended, with the generator put back into the state it had
CallReplayed ==
    /\ rng.mode = "record"
    /\ Call(call.s, call.placed_objects, call.reference, call.on_top, call.neg_reference)
    /\ rng' = Generator("replay", rng.tape, ret)

\* U1 samples one object or none over a 2 x 2 region with or without the
\* boundary and the overlap check, at the height of the fixtures or above
InitDeterminism ==
    /\ InitCommon
    /\ \E boundary \in BOOLEAN, valid \in BOOLEAN, num_attempts \in 1..MaxAttempts,
          z \in {0, 3} :
         cfg = [u \in Uniforms |->
                  IF u = "U1"
                  THEN UniformConfig(<<0, 2>>, <<0, 2>>, Rotation("value", 0, 0), "z",
                                     boundary, valid, FALSE, FALSE, <<0, 0, z>>,
                                     0, z, num_attempts)
                  ELSE SmallConfig(u)]
    /\ \E objs \in {<< >>, <<"a">>} :
         mujoco_objects = [s \in Samplers |-> IF s = "U1" THEN objs ELSE << >>]
    /\ samplers = [c \in Composites |-> << >>]
    /\ sample_args = [c \in Composites |-> << >>]
    /\ sampler_optional = [c \in Composites |-> << >>]
    /\ given_args = [c \in Composites |-> << >>]

NextDeterminism ==
    \/ CallRecorded
    \/ CallReplayed
    \/ UniformBegin
    \/ UniformNextObject
    \/ UniformAttempt
    \/ UniformExhausted

SpecDeterminism == InitDeterminism /\ [][NextDeterminism]_vars

\* ------------------------------------------------------------ MultiRegionSampler
\* lines 121-129
sides_combinations_swapped ==
    [left |-> <<"front_right", "back_right">>, right |-> <<"front_left", "back_left">>,
     front |-> <<"front_left", "front_right">>, back |-> <<"back_left", "back_right">>,
     all |-> <<"front_left", "front_right", "back_left", "back_right">>]
sides_combinations ==
    [left |-> <<"front_left", "back_left">>, right |-> <<"front_right", "back_right">>,
     front |-> <<"front_left", "front_right">>, back |-> <<"back_left", "back_right">>,
     all |-> <<"front_left", "front_right", "back_left", "back_right">>]

\* lines 131-145
valid_sides ==
    {"left", "right", "front", "back", "all",
     "front_left", "front_right", "back_left", "back_right"}

\* the site of a quadrant: its centre and its extent, no two alike
QuadSite(q) ==
    LET x == IF q \in {"front_left", "front_right"} THEN 2 ELSE -2
        y == IF q \in {"front_left", "back_left"} THEN 2 ELSE -2
    IN  [name |-> q,
         value |-> [pos |-> <<x, y, 0>>,
                    x_range |-> IF x > 0 THEN <<0, 1>> ELSE <<-1, 0>>,
                    y_range |-> IF y > 0 THEN <<0, 2>> ELSE <<-2, 0>>]]

\* the regions a caller passes: the four quadrants, three of them, the four
\* and a fifth, or four of which one is not named after a quadrant
RegionChoices ==
    LET four == << QuadSite("front_left"), QuadSite("front_right"),
                   QuadSite("back_left"), QuadSite("back_right") >>
        centre == [QuadSite("back_right") EXCEPT !.name = "centre"]
    IN  { four, SubSeq(four, 1, 3), Append(four, centre), Append(SubSeq(four, 1, 3), centre) }

\* MultiRegionSampler.__init__, lines 685-730: super().__init__ is not
\* called, so self.rng, self.name and self.mujoco_objects are never set
multi_init(regions, side, boundary, valid) ==
    LET given == [NoMulti EXCEPT !.regions = regions, !.side = side]
    IN  IF Len(regions) # 4 THEN [given EXCEPT !.error = "ValueError"]
        ELSE IF side \notin valid_sides THEN [given EXCEPT !.error = "ValueError"]
        ELSE LET sides == IF side \in DOMAIN sides_combinations
                          THEN sides_combinations[side] ELSE <<side>>
                 child(q) ==
                     LET site == od_get(regions, q)
                     IN  UniformConfig(site.x_range, site.y_range, Rotation("none", 0, 0), "z",
                                       boundary, valid, FALSE, FALSE, site.pos, 0, 0,
                                       DefaultAttempts)
             IN  IF \E j \in DOMAIN sides : sides[j] \notin od_keys(regions)
                 THEN [given EXCEPT !.error = "KeyError"]
                 ELSE [given EXCEPT !.built = TRUE, !.sides = sides,
                                    !.samplers = [j \in DOMAIN sides |-> child(sides[j])]]

ConstructMulti ==
    /\ ~Running /\ ~multi.built /\ multi.error = ""
    /\ \E regions \in RegionChoices, side \in valid_sides \cup {"centre"},
          boundary \in BOOLEAN, valid \in BOOLEAN :
         multi' = multi_init(regions, side, boundary, valid)
    /\ UNCHANGED <<cfg, reg_vars, sample_args, spawn_active, stack, ret, call, ncalls, rng,
                   hosted, reserved>>

\* MultiRegionSampler.sample, lines 734-737: self.rng is read first; the child
\* drawn is then called with the keyword fixtures, which
\* UniformRandomSampler.sample (lines 290-296) does not take
CallMulti ==
    /\ ~Running /\ ncalls < MaxCalls /\ multi.built
    /\ \E fixtures \in {EmptyTable, Fix}, reference \in {NoRef, NameRef("shelf")},
          on_top \in BOOLEAN :
         call' = [s |-> "M", placed_objects |-> fixtures, reference |-> reference,
                  on_top |-> on_top, neg_reference |-> << >>]
    /\ ncalls' = ncalls + 1
    /\ IF ~multi.has_rng
       THEN /\ ret' = Outcome("AttributeError", "M", EmptyTable, "", 0, {})
            /\ multi' = [multi EXCEPT !.chosen = << >>]
            /\ UNCHANGED rng
       ELSE \E d \in draws(<<DOMAIN multi.samplers>>) :
                /\ ret' = Outcome("TypeError", "M", EmptyTable, "", 0, {})
                /\ multi' = [multi EXCEPT
                                !.chosen = << choice(DOMAIN multi.samplers, d[1]) >>]
                /\ rng' = drawn(d)
    /\ UNCHANGED <<cfg, reg_vars, sample_args, spawn_active, stack, hosted, reserved>>

InitMulti ==
    /\ InitDeterminism
    /\ cfg["U1"].num_attempts = 1
    /\ ~cfg["U1"].ensure_object_boundary_in_range /\ ~cfg["U1"].ensure_valid_placement

NextMulti ==
    \/ ConstructMulti
    \/ CallMulti

SpecMulti == InitMulti /\ [][NextMulti]_vars

\* ------------------------------------------------------------ claims
\* the frames of the calls of uniform samplers in progress
UniformFrames == { k \in 1..Len(stack) : stack[k].s \in Uniforms }
\* the objects the call of frame f has committed so far
committed(f) == { mujoco_objects[f.s][j] : j \in 1..(f.i - 1) }

\* C1: UniformRandomSampler.sample raises the placement-exhausted error for an
\* object only after exactly num_attempts failed attempts for that object,
\* whatever checks are enabled
C1_ExhaustedAfterBudget ==
    ret.kind = "RandomizationError" /\ ret.by \in Uniforms
        => ret.attempts = cfg[ret.by].num_attempts

\* the spawn owner of frame f is the object of table entry m
is_owner(f, m) == f.spawn_ref_obj # "" /\ f.placed_objects[m].obj = f.spawn_ref_obj

\* C2: with overlap rejection enabled, an object committed by a call of
\* UniformRandomSampler.sample intersects no other entry of the table (the
\* caller's fixtures, the objects committed before and after it), the owner
\* of the consumed spawn excepted
C2_NonOverlap ==
    \A k \in UniformFrames :
        LET f == stack[k]
            t == f.placed_objects
        IN  cfg[f.s].ensure_valid_placement =>
              \A n \in committed(f) : \A m \in DOMAIN t \ {n} :
                  is_owner(f, m) \/ ~objs_intersect(n, t[n].pos, t[m].obj, t[m].pos)

\* two objects were committed next to the caller's fixtures with the overlap check on
C2_Witness ==
    \E k \in UniformFrames :
        /\ cfg[stack[k].s].ensure_valid_placement
        /\ stack[k].i = 3
        /\ "shelf" \in DOMAIN stack[k].placed_objects

\* the calls that are in their retry loop with a spawn reference
SpawnAttempts ==
    { k \in UniformFrames : /\ stack[k].pc = "attempts"
                            /\ stack[k].spawn_ref_obj # ""
                            /\ stack[k].attempt < cfg[stack[k].s].num_attempts }
\* the candidate positions the call of frame f can draw for object obj
Candidates(f, obj) ==
    { object_pos(cfg[f.s], f.base_offset, f.on_top, obj, x, y) :
        x \in uniform(cfg[f.s].x_range), y \in uniform(cfg[f.s].y_range) }
\* the candidate passes every active check but the one against the spawn owner
passes_other_checks(f, obj, pos) ==
    LET c == cfg[f.s]
        t == f.placed_objects
    IN  /\ c.rotation_axis \in {"x", "y", "z"}
        /\ c.ensure_object_boundary_in_range =>
              LET rp == region_points(c, f.base_offset)
              IN  obj_in_region(obj, pos, rp[1], rp[2], rp[3])
        /\ c.ensure_valid_placement =>
              \A m \in DOMAIN t :
                  is_owner(f, m) \/ ~objs_intersect(obj, pos, t[m].obj, t[m].pos)
        /\ c.ensure_object_in_ref_region =>
              obj_in_region_with_keypoints(
                  obj, pos, get_bbox_points(t[f.reference.name].obj, t[f.reference.name].pos), 3)
        /\ c.ensure_object_out_of_ref_region =>
              \A j \in 1..Len(f.neg_reference) :
                  /\ f.neg_reference[j] \in DOMAIN t
                  /\ LET e == t[f.neg_reference[j]]
                         bb == get_bbox_points(e.obj, e.pos)
                     IN  ~obj_in_region(obj, pos, bb[1], bb[2], bb[3])
\* the candidate intersects the owner of the spawn
intersects_owner(f, obj, pos) ==
    \A m \in DOMAIN f.placed_objects :
        is_owner(f, m) =>
            objs_intersect(obj, pos, f.placed_objects[m].obj, f.placed_objects[m].pos)

C4_BoundaryInvariant ==
    \A k \in UniformFrames :
        LET f == stack[k]
            rp == region_points(cfg[f.s], f.base_offset)
        IN  cfg[f.s].ensure_object_boundary_in_range =>
              \A n \in committed(f) :
                  obj_in_region(n, f.placed_objects[n].pos, rp[1], rp[2], rp[3])

\* an object was committed in a region turned by a quarter and placed
\* relative to the shelf, with the boundary check on
C4_Witness ==
    \E k \in UniformFrames :
        /\ cfg[stack[k].s].ensure_object_boundary_in_range
        /\ cfg[stack[k].s].reference_rot = 1
        /\ stack[k].reference.type = "name"
        /\ stack[k].i >= 2

\* C5: within one pass a spawn site hosts at most one object
C5_SpawnExclusive ==
    \A o \in AllObjs : \A k \in DOMAIN hosted[o] : Cardinality(hosted[o][k]) <= 1

\* C6: the spawn chosen when a (name, spawn-index) reference is resolved is
\* inactive from that step on: in the call that resolved it and in every
\* later state, whatever becomes of the call; and no step turns an inactive
\* spawn active again
C6_ReservationKept ==
    /\ [](/\ \A r \in reserved : ~spawn_active[r[1]][r[2]]
          /\ \A k \in UniformFrames :
                stack[k].spawn_ref_obj # ""
                    => ~spawn_active[stack[k].spawn_ref_obj][stack[k].spawn_id])
    /\ [][\A o \in AllObjs : \A k \in DOMAIN spawn_active[o] :
              ~spawn_active[o][k] => ~spawn_active'[o][k]]_vars

\* a composite's call has returned after it swallowed the failure of the
\* sub-sampler that had reserved a spawn: the spawn hosts nothing
C6_Witness ==
    /\ stack = << >> /\ ret.kind = "return" /\ ret.by \in Composites
    /\ ret.skipped # {}
    /\ reserved # {}
    /\ \A r \in reserved : hosted[r[1]][r[2]] = {} /\ ~spawn_active[r[1]][r[2]]

\* the uniform samplers under sampler s
RECURSIVE leaves(_)
leaves(s) ==
    IF s \in Uniforms THEN {s}
    ELSE UNION { leaves(samplers[s][k].value) : k \in 1..Len(samplers[s]) }
\* the objects transitively owned by sampler s
owned(s) == UNION { Range(mujoco_objects[u]) : u \in leaves(s) }

\* C7 (as claimed): a successful call of SequentialCompositeSampler.sample in
\* which no optional sub-sampler failed returns a table whose keys are exactly
\* the objects transitively owned by its sub-samplers
C7_CompositeOwnership ==
    ret.kind = "return" /\ ret.by \in Composites /\ ret.skipped = {}
        => DOMAIN ret.table = owned(ret.by)

\* the composite frames of the stack
CompositeFrames == { k \in 1..Len(stack) : stack[k].s \in Composites }
\* the sub-sampler the composite of frame f is at, and its optional flag
current_sub(f) == next_sampler(samplers[f.s], f.i)
current_optional(f) == od_get(sampler_optional[f.s], name_of(current_sub(f)))
\* object n is registered under sampler s and under no uniform sampler outside s
only_under(n, s) ==
    /\ n \in owned(s)
    /\ \A u \in Uniforms \ leaves(s) : n \notin Range(mujoco_objects[u])
\* a sub-sampler's call has ended with exhausted retries and the composite is
\* about to resume
SubExhausted == InComposite /\ Top.pc = "wait" /\ ret.kind = "RandomizationError"

C9_MandatoryAborts ==
    [][SubExhausted /\ ~current_optional(Top) =>
           /\ stack' = Tail(stack)
           /\ ret' = ret
           /\ ret'.table = EmptyTable]_vars

\* the call of T has ended with the failure of its first, mandatory
\* sub-sampler while a second sub-sampler was registered
C9_Witness ==
    /\ stack = << >> /\ ret.kind = "RandomizationError" /\ call.s = "T" /\ ncalls > 0
    /\ Len(samplers["T"]) = 2
    /\ ret.by = samplers["T"][1].value
    /\ ~sampler_optional["T"][1].value
    /\ mujoco_objects[samplers["T"][2].value] # << >>

\* C10 (as claimed): in every call of a composite, a sub-sampler registered
\* without a reference (on_top) of its own is called with the reference
\* (on_top) of that call of the composite
C10_ArgumentDefaulting ==
    \A k \in CompositeFrames :
        (stack[k].pc = "wait" /\ k > 1) =>
            LET f == stack[k]
                g == given_args[f.s][f.i].value
            IN  /\ "reference" \notin g.keys => stack[k - 1].reference = f.reference
                /\ "on_top" \notin g.keys => stack[k - 1].on_top = f.on_top

\* the table a composite's call has built from the table it was given and
\* the tables its successful sub-samplers returned, in the order they ran
RECURSIVE accumulated(_, _)
accumulated(given, ran) ==
    IF ran = << >> THEN given
    ELSE accumulated(IF Head(ran).ok THEN Update(given, Head(ran).table) ELSE given,
                     Tail(ran))

\* C11: the sub-samplers of a composite run in the order of their
\* registration, and the table each one is given is the table the caller
\* passed plus the entries returned by the sub-samplers that ran successfully
\* before it in the same call
C11_RegistrationOrder ==
    \A k \in CompositeFrames :
        LET f == stack[k]
        IN  /\ k = Len(stack) => f.given = call.placed_objects
            /\ \A j \in 1..Len(f.ran) : f.ran[j].s = samplers[f.s][j].value
            /\ (f.pc = "wait" /\ k > 1) =>
                  /\ stack[k - 1].s = samplers[f.s][Len(f.ran) + 1].value
                  /\ stack[k - 1].given = accumulated(f.given, f.ran)
                  /\ \A n \in DOMAIN f.given : n \in DOMAIN stack[k - 1].given

\* the second sub-sampler of T runs on the fixtures and the object the first
\* one placed
C11_Witness ==
    /\ Len(stack) = 2 /\ stack[2].s = "T" /\ stack[2].pc = "wait"
    /\ Len(stack[2].ran) = 1 /\ stack[2].ran[1].ok
    /\ DOMAIN stack[2].ran[1].table # {}
    /\ DOMAIN stack[2].given = Fixtures
    /\ stack[1].s # stack[2].ran[1].s
    /\ DOMAIN stack[1].given = Fixtures \cup DOMAIN stack[2].ran[1].table

\* C12: a call repeated with the same generator state, the same table and the
\* same configuration ends as the first did: the same kind of outcome and
\* the same table, also when it is made right after the first on the same
\* sampler and objects
C12_Determinism ==
    (rng.mode = "replay" /\ ~Running /\ ret.kind # "none") =>
        /\ ret.kind = rng.first.kind
        /\ ret.table = rng.first.table

\* C13: a sample call on a MultiRegionSampler ends as the call of exactly
\* one of its children does: one child is called, and the call returns that
\* child's table or raises that child's failure
C13_DelegatesToOneChild ==
    (multi.built /\ ~Running /\ call.s = "M" /\ ret.kind # "none") =>
        /\ Len(multi.chosen) = 1
        /\ ret.kind \in {"return", "RandomizationError", "AssertionError", "ValueError"}

\* C16: the construction of a MultiRegionSampler fails with ValueError unless
\* four regions are given and the side is one of the nine selectors;
\* otherwise it builds one child per selected quadrant (the quadrant named,
\* the two quadrants on the edge named, or all four), each child with the
\* reference position and the x and y ranges of its own quadrant
C16_Construction ==
    (multi.built \/ multi.error # "") =>
        LET edges == [front_left |-> {"front", "left"}, front_right |-> {"front", "right"},
                      back_left |-> {"back", "left"}, back_right |-> {"back", "right"}]
            quadrants == DOMAIN edges
            selectors == quadrants \cup {"left", "right", "front", "back", "all"}
            selected == IF multi.side = "all" THEN quadrants
                        ELSE IF multi.side \in quadrants THEN {multi.side}
                        ELSE { q \in quadrants : multi.side \in edges[q] }
            acceptable == Len(multi.regions) = 4 /\ multi.side \in selectors
        IN  /\ ~acceptable <=> (multi.error = "ValueError" /\ ~multi.built)
            /\ acceptable =>
                  /\ multi.built /\ multi.error = ""
                  /\ Len(multi.samplers) = Cardinality(selected)
                  /\ Len(multi.sides) = Len(multi.samplers)
                  /\ Range(multi.sides) = selected
                  /\ \A j \in DOMAIN multi.samplers :
                        LET site == od_get(multi.regions, multi.sides[j])
                        IN  /\ multi.samplers[j].reference_pos = site.pos
                            /\ multi.samplers[j].x_range = site.x_range
                            /\ multi.samplers[j].y_range = site.y_range

\* C16 (amended): the construction fails with ValueError unless four regions
\* are given and the side is one of the nine selectors; otherwise it fails
\* with KeyError when a selected quadrant is not the name of a region, and
\* else builds one child per selected quadrant, each child with the
\* reference position and the x and y ranges of its own quadrant
C16_ConstructionNamed ==
    (multi.built \/ multi.error # "") =>
        LET edges == [front_left |-> {"front", "left"}, front_right |-> {"front", "right"},
                      back_left |-> {"back", "left"}, back_right |-> {"back", "right"}]
            quadrants == DOMAIN edges
            selectors == quadrants \cup {"left", "right", "front", "back", "all"}
            selected == IF multi.side = "all" THEN quadrants
                        ELSE IF multi.side \in quadrants THEN {multi.side}
                        ELSE { q \in quadrants : multi.side \in edges[q] }
            acceptable == Len(multi.regions) = 4 /\ multi.side \in selectors
        IN  /\ ~acceptable <=> (multi.error = "ValueError" /\ ~multi.built)
            /\ (acceptable /\ ~(selected \subseteq od_keys(multi.regions))) =>
                  multi.error = "KeyError" /\ ~multi.built
            /\ (acceptable /\ selected \subseteq od_keys(multi.regions)) =>
                  /\ multi.built /\ multi.error = ""
                  /\ Len(multi.samplers) = Cardinality(selected)
                  /\ Len(multi.sides) = Len(multi.samplers)
                  /\ Range(multi.sides) = selected
                  /\ \A j \in DOMAIN multi.samplers :
                        LET site == od_get(multi.regions, multi.sides[j])
                        IN  /\ multi.samplers[j].reference_pos = site.pos
                            /\ multi.samplers[j].x_range = site.x_range
                            /\ multi.samplers[j].y_range = site.y_range

\* a sampler built for the left side: the two children of the left quadrants
C16_Witness ==
    /\ multi.built /\ multi.side = "left" /\ Len(multi.samplers) = 2
    /\ multi.samplers[1].reference_pos # multi.samplers[2].reference_pos

\* C14: after any sequence of append_sampler, add_objects_to_sampler and
\* add_objects calls, on a composite or on one of its sub-samplers, no object
\* is registered with two sibling sub-samplers of a composite
C14_NoDuplicateInTree ==
    \A c \in Composites :
        \A j, k \in DOMAIN samplers[c] :
            j # k => owned(samplers[c][j].value) \cap owned(samplers[c][k].value) = {}

\* C15: a call of UniformRandomSampler.sample whose reference names an object
\* (a name, or the name of a (name, spawn) pair) that is not in the table
\* fails in its first step with the error of the reference resolution: no
\* value has been drawn, no spawn flag has changed, no attempt was made, with
\* or without objects registered
C15_AbsentReferenceFails ==
    [][ (InUniform /\ Top.pc = "begin" /\ Top.reference.type \in {"name", "spawn"}
           /\ Top.reference.name \notin DOMAIN Top.placed_objects) =>
        /\ stack' = Tail(stack)
        /\ ret'.kind = "AssertionError" /\ ret'.obj = Top.reference.name
        /\ ret'.attempts = 0
        /\ spawn_active' = spawn_active
        /\ rng' = rng ]_vars

\* a recorded call on a sampler without objects has failed on the absent
\* owner of a spawn; nothing was drawn
C15_Witness ==
    /\ ~Running /\ ret.kind = "AssertionError" /\ ret.obj = "ghost"
    /\ call.reference = SpawnRef("ghost", -1)
    /\ mujoco_objects[call.s] = << >>
    /\ rng.mode = "record" /\ rng.tape = << >>

\* C17: the table a successful call of UniformRandomSampler.sample returns
\* holds every entry of the table passed in, unchanged, and one new entry
\* for each object registered with the sampler, and nothing else
C17_FullTableReturned ==
    (~Running /\ ret.kind = "return" /\ ret.by \in Uniforms) =>
        LET given == call.placed_objects
            objs == Range(mujoco_objects[ret.by])
        IN  /\ \A n \in DOMAIN given : n \in DOMAIN ret.table /\ ret.table[n] = given[n]
            /\ objs \cap DOMAIN given = {}
            /\ DOMAIN ret.table = DOMAIN given \cup objs
            /\ \A n \in objs : ret.table[n].obj = n

\* both objects of the sampler were added to the two fixtures passed in
C17_Witness ==
    /\ ~Running /\ ret.kind = "return" /\ ret.by = "U1"
    /\ DOMAIN call.placed_objects = Fixtures
    /\ DOMAIN ret.table = Fixtures \cup {"a", "b"}

\* C18: every call of sample, on a uniform sampler or on a composite, ends:
\* whatever the retry budget and the answers of the geometry checks, a call
\* in progress is eventually over, with a table returned or an error raised
C18_Terminates == Running ~> (~Running /\ ret.kind # "none")

\* a call on the composite has ended after a sub-sampler used up its budget
C18_Witness ==
    /\ ~Running /\ call.s = "T" /\ ncalls > 0
    /\ ret.kind = "RandomizationError" /\ ret.attempts = MaxAttempts

\* C19: every object passed to a hide call of a composite is in the table
\* of the next successful sample call of that composite, at the hide region,
\* however many hide calls were made before the call
C19_HiddenArePlaced ==
    (~Running /\ ret.kind = "return" /\ ret.by = "T" /\ call.s = "T") =>
        \A h \in HideSamplers : \A o \in Range(mujoco_objects[h]) :
            /\ o \in DOMAIN ret.table
            /\ ret.table[o].pos[1] \in uniform(HideConfig.x_range)
            /\ ret.table[o].pos[2] \in uniform(HideConfig.y_range)

\* C20: with ensure_object_in_ref_region set, the key point test is made only
\* for a named reference: a call whose reference is an (x, y, z) coordinate
\* skips the test, so it never fails on looking up the reference, and with a
\* named reference every object committed passes the test against the
\* bounding box of the reference object
C20_InRefOnlyWhenNamed ==
    /\ (~Running /\ call.s \in Uniforms /\ call.reference.type = "xyz"
          /\ cfg[call.s].ensure_object_in_ref_region) => ret.kind # "KeyError"
    /\ \A k \in UniformFrames :
          LET f == stack[k]
          IN  (cfg[f.s].ensure_object_in_ref_region /\ f.reference.type \in {"name", "spawn"}
                 /\ f.pc # "begin") =>
                 \A o \in committed(f) :
                     in_ref_ok(f.placed_objects, f.reference, o, f.placed_objects[o].pos)

\* C21: with ensure_object_out_of_ref_region set, at least one object
\* registered and a retry budget, a call whose neg_reference names an object
\* that is not in the table ends with the error of the reference resolution,
\* whatever the boundary and the overlap check answer: never with the
\* retries used up and never with a table (the reference is absent, the axis
\* valid and the in-reference check off, so that nothing else fails)
C21_AbsentExclusionFails ==
    (/\ ~Running /\ ret.kind # "none" /\ call.s \in Uniforms /\ ret.by = call.s
     /\ cfg[call.s].ensure_object_out_of_ref_region
     /\ ~cfg[call.s].ensure_object_in_ref_region
     /\ cfg[call.s].rotation_axis = "z"
     /\ cfg[call.s].num_attempts > 0
     /\ mujoco_objects[call.s] # << >>
     /\ call.reference.type = "none"
     /\ \E j \in DOMAIN call.neg_reference :
           call.neg_reference[j] \notin DOMAIN call.placed_objects)
    => ret.kind = "AssertionError"

\* C22: when UniformRandomSampler.sample cannot place an object it raises at
\* that object: the step after the budget of the object is used up ends the
\* call, nothing more is drawn and no later object is tried, and the caller
\* gets no table, so the objects placed earlier in the call are not visible
C22_RaisesAtObject ==
    /\ []((~Running /\ ret.kind = "RandomizationError" /\ ret.by \in Uniforms) =>
             /\ ret.table = EmptyTable
             /\ ret.obj \in Range(mujoco_objects[ret.by]))
    /\ [][ /\ (InUniform /\ Top.pc = "attempts"
                /\ Top.attempt >= cfg[Top.s].num_attempts) =>
                  /\ stack' = Tail(stack)
                  /\ ret'.kind = "RandomizationError"
                  /\ ret'.obj = mujoco_objects[Top.s][Top.i]
                  /\ rng' = rng
           /\ (InUniform /\ ret'.kind = "RandomizationError") =>
                  /\ stack' = Tail(stack)
                  /\ Top.pc = "attempts"
                  /\ ret'.obj = mujoco_objects[Top.s][Top.i]
                  /\ ret'.table = EmptyTable ]_vars

\* the first object was placed, the second one could not be: the call has
\* raised at the second and the caller has no table
C22_Witness ==
    /\ ~Running /\ ret.kind = "RandomizationError" /\ ret.by = "U1"
    /\ mujoco_objects["U1"] = <<"a", "b">> /\ ret.obj = "b"
    /\ ret.attempts > 0 /\ ret.table = EmptyTable

\* C23: the z of a committed object is the z_offset of the sampler plus the z
\* of the base offset, minus the bottom extent of the object when on_top is
\* set; the z of the base offset is that of the sampler's reference position
\* (no reference), that of the referenced object plus its top extent when
\* on_top is set (name), that of the owner plus the bottom offset of the
\* spawn (spawn), or the z given (coordinate)
C23_VerticalPlacement ==
    \A k \in UniformFrames :
        LET f == stack[k]
            c == cfg[f.s]
            ref == f.reference
            e == f.given[ref.name]
            base_z == CASE ref.type = "none"  -> c.reference_pos[3]
                        [] ref.type = "name"  ->
                               e.pos[3] + (IF f.on_top THEN top_offset(e.obj) ELSE 0)
                        [] ref.type = "spawn" ->
                               e.pos[3] + get_spawn_bottom_offset(spawns(e.obj)[f.spawn_id])[3]
                        [] ref.type = "xyz"   -> ref.pos[3]
        IN  f.pc # "begin" =>
                \A o \in committed(f) :
                    f.placed_objects[o].pos[3] =
                        c.z_offset + base_z - (IF f.on_top THEN bottom_offset(o) ELSE 0)

\* an object was put on top of the shelf by a sampler with a z_offset
C23_Witness ==
    \E k \in UniformFrames :
        /\ stack[k].reference = NameRef("shelf") /\ stack[k].on_top
        /\ cfg[stack[k].s].z_offset > 0
        /\ stack[k].pc # "begin" /\ committed(stack[k]) # {}

\* table u holds every entry of table t, unchanged
Extends(u, t) == \A n \in DOMAIN t : n \in DOMAIN u /\ u[n] = t[n]
\* no entry of a table is changed or dropped by a step of the pass: the table
\* of the running call keeps its entries, the table handed to a sub-sampler
\* holds them, and a returned table agrees with them
EntriesKept ==
    /\ (Running /\ Len(stack') = Len(stack)) =>
           Extends(stack'[1].placed_objects, Top.placed_objects)
    /\ (Running /\ Len(stack') = Len(stack) + 1) =>
           Extends(stack'[1].placed_objects, Top.placed_objects)
    /\ (Running /\ Len(stack') = Len(stack) - 1 /\ ret'.kind = "return") =>
           \A n \in DOMAIN ret'.table \cap DOMAIN Top.placed_objects :
               ret'.table[n] = Top.placed_objects[n]
\* the loop of a uniform sampler that reaches an object whose name is in the
\* table ends the call with the assertion error
AssertsAtNamed ==
    (/\ InUniform /\ Top.pc = "objects" /\ Top.i <= Len(mujoco_objects[Top.s])
     /\ mujoco_objects[Top.s][Top.i] \in DOMAIN Top.placed_objects) =>
        /\ stack' = Tail(stack) /\ ret'.kind = "AssertionError"
        /\ ret'.obj = mujoco_objects[Top.s][Top.i]
\* the call on a uniform sampler was given the name of one of its objects
GivenRegisteredName ==
    /\ ~Running /\ ret.kind # "none" /\ call.s \in Uniforms /\ ret.by = call.s
    /\ Range(mujoco_objects[call.s]) \cap DOMAIN call.placed_objects # {}

\* C24: a call of UniformRandomSampler.sample on a table that holds the name of
\* one of the sampler's objects fails with an assertion error, and no step of
\* a pass changes or drops an entry of the table
C24_NeverPlacedTwice ==
    /\ [](GivenRegisteredName => ret.kind = "AssertionError")
    /\ [][AssertsAtNamed /\ EntriesKept]_vars

\* C24 as amended: such a call never succeeds, it fails with the assertion
\* error when the loop over the objects reaches the name (an earlier object
\* may end the call first, with its own error), and no step of a pass
\* changes or drops an entry of the table
C24_NeverPlacedTwiceReached ==
    /\ [](GivenRegisteredName => ret.kind # "return")
    /\ [][AssertsAtNamed /\ EntriesKept]_vars

\* the first object was placed and the second was in the table
C24_Witness ==
    /\ GivenRegisteredName /\ call.placed_objects = FixB
    /\ ret.kind = "AssertionError" /\ ret.obj = "b"

\* every list of the tree of composite c is empty
TreeEmpty(c) == \A x \in reset_set(c) : mujoco_objects[x] = << >>

\* C25: reset() on a composite empties the list of the composite and of every
\* sampler below it and keeps the sub-samplers, their order, their sample
\* arguments and their optional flags; a sample call on the emptied tree makes
\* no attempt and returns the empty table; right after the reset any object
\* can be registered with a sub-sampler, through the composite or directly
C25_ResetClears ==
    /\ [](\A k \in UniformFrames :
              mujoco_objects[stack[k].s] = << >> => stack[k].pc # "attempts")
    /\ [][ /\ (ret'.kind = "reset" /\ mujoco_objects' # mujoco_objects) =>
                 /\ \A x \in reset_set(ret'.by) : mujoco_objects'[x] = << >>
                 /\ samplers' = samplers /\ sample_args' = sample_args
                 /\ sampler_optional' = sampler_optional
           /\ (Running /\ stack' = << >> /\ call.s = "T" /\ TreeEmpty("T")) =>
                 ret'.kind = "return" /\ ret'.table = EmptyTable
           /\ (~Running /\ ret.kind = "reset" /\ ret.by = "T" /\ nreg' = nreg + 1) =>
                 \A o \in Objs :
                     /\ add_objects_to_sampler("T", "u1", <<o>>) => ret'.kind = "registered"
                     /\ \A u \in {"U1", "U2"} :
                            add_objects(u, <<o>>) => ret'.kind = "registered" ]_vars

\* C26: a sample call on a uniform sampler built with a rotation axis other
\* than x, y or z ends with the configuration error, also with a retry budget
\* of zero, and the error is raised by the first step of the call, before a
\* value is drawn and before a spawn flag changes
C26_BadAxisReported ==
    /\ []((/\ ~Running /\ ret.kind # "none" /\ call.s \in Uniforms /\ ret.by = call.s
           /\ cfg[call.s].rotation_axis \notin {"x", "y", "z"}) =>
              ret.kind = "ValueError")
    /\ [][ (/\ InUniform /\ Top.pc = "begin"
            /\ cfg[Top.s].rotation_axis \notin {"x", "y", "z"}) =>
               /\ stack' = Tail(stack) /\ ret'.kind = "ValueError"
               /\ rng' = rng /\ spawn_active' = spawn_active ]_vars

\* C27: a registration call that fails (add_objects_to_sampler or add_objects
\* ending with an error) leaves the object list of the composite and of every
\* sub-sampler as it was before the call
C27_FailedRegistrationKeepsLists ==
    [][ \A o \in Objs :
           /\ \A sampler \in {"U1", "U2"} :
                  (/\ nreg' = nreg + 1 /\ ret'.kind # "registered"
                   /\ add_objects_to_sampler("T", name_of(sampler), <<o>>)) =>
                      mujoco_objects' = mujoco_objects
           /\ \A s \in Uniforms \ HideSamplers :
                  (/\ nreg' = nreg + 1 /\ ret'.kind # "registered"
                   /\ add_objects(s, <<o>>)) =>
                      mujoco_objects' = mujoco_objects ]_vars

\* C28: the dict a caller passes to UniformRandomSampler.sample or to
\* SequentialCompositeSampler.sample keeps its keys and its entries while the
\* call runs, up to its last statement, whether it ends with a table or with
\* an error: the call writes to its own copy
C28_CallerTableKept ==
    \A k \in 1..Len(stack) :
        /\ stack[k].intact
        /\ k = Len(stack) => stack[k].given = call.placed_objects

\* the composite returned a table with an object that the table of the
\* caller does not hold
C28_Witness ==
    /\ ~Running /\ call.s = "T" /\ ret.kind = "return" /\ ret.by = "T"
    /\ call.placed_objects = Fix
    /\ DOMAIN ret.table \ DOMAIN Fix # {}

====================================================================================
